---- MODULE Spec2Model ----
(***************************************************************************)
(* Model of the format-orchestration pipeline of src/routes/+page.svelte:  *)
(* the debounced format scheduler, the asynchronous engine call and its    *)
(* completion, the status and debounce timers, and the session state.      *)
(*                                                                         *)
(* Text is a sequence of character tokens.  A token is one character,     *)
(* except "xx", which stands for a run of BigRun letters x (so that texts  *)
(* of MAX_INPUT_LENGTH characters and one more can be written down), the   *)
(* words the regular expressions of the code look for ("line", "string",   *)
(* "className=", ...) and the literals of the failure placeholder.  "NL"   *)
(* is the newline character.                                               *)
(***************************************************************************)
EXTENDS Integers, Sequences, FiniteSets, TLC

\* ---- program constants (+page.svelte lines 17-21) ----
DEBOUNCE_DELAY_MS == 500
STATUS_DURATION_MS == 2000
ERROR_STATUS_DURATION_MS == 5000
MAX_INPUT_LENGTH == 500000
MAX_FILE_SIZE_BYTES == 1048576
FORMATTING_STATUS_MS == 1000
CLEARED_STATUS_MS == 1000

\* ---- bounds of the model ----
\* the longest step by which time advances while a debounce timer is pending
TickStep == 250
\* operations of the user in one session; each starts one engine call at
\* most, so no more than MaxOps calls are pending at a time
MaxOps == 2
\* the longest text, in tokens, given to generateDiffView on its own
DiffLen == 3
\* the most fragments in a message given to extractErrorLineNumber on its own
MessageParts == 3
\* the most fragments in a text given to detectLanguage on its own
DetectParts == 2
\* operations of the user in a session of view changes: toggles of the diff
\* view, language selections, uploads, clears and immediate formats
ViewOps == 4

\* ---- text ----
BigRun == MAX_INPUT_LENGTH - 2

\* the literal "// Formatting failed" the copy and download guards look for
FF == "// Formatting failed"
\* the rest of the first placeholder line, ". Check code for syntax errors."
CK == ". Check code for syntax errors."
\* the literal "// Error: " opening the second placeholder line
ER == "// Error: "

\* ---- character classes of the regular expressions ----
Digits == {"0", "1", "2", "3", "4", "5", "6", "7", "8", "9"}
UpperLetters == {"A", "B"}
LowerLetters == {"a", "b", "e", "xx"}
\* (string|number|boolean|any|void|never|unknown|object)
PrimitiveTypes ==
    {"string", "number", "boolean", "any", "void", "never", "unknown", "object"}
HookNames == {"useState", "useEffect", "useCallback", "useMemo"}
LineWords == {"line", "Line"}
LetterWords ==
    PrimitiveTypes \cup HookNames \cup LineWords \cup {"interface", "type", "as", "const"}
\* words that end in a punctuation character
PunctWords == {"className=", "onClick=", "React."}

\* the number of characters a token stands for
Width(c) ==
    CASE c = "xx" -> BigRun
      [] c = FF -> 20
      [] c = CK -> 30
      [] c = ER -> 10
      [] c = "as" -> 2
      [] c = "any" -> 3
      [] c \in {"void", "type", "line", "Line"} -> 4
      [] c \in {"never", "const"} -> 5
      [] c \in {"string", "number", "object", "React."} -> 6
      [] c \in {"boolean", "unknown", "useMemo"} -> 7
      [] c \in {"useState", "onClick="} -> 8
      [] c \in {"interface", "useEffect"} -> 9
      [] c = "className=" -> 10
      [] c = "useCallback" -> 11
      [] OTHER -> 1

RECURSIVE StrLen(_)
StrLen(t) == IF t = <<>> THEN 0 ELSE Width(Head(t)) + StrLen(Tail(t))

IsSpace(c) == c \in {" ", "NL"}

RECURSIVE TrimStart(_)
TrimStart(t) ==
    IF t # <<>> /\ IsSpace(Head(t)) THEN TrimStart(Tail(t)) ELSE t

RECURSIVE TrimEnd(_)
TrimEnd(t) ==
    IF t # <<>> /\ IsSpace(t[Len(t)]) THEN TrimEnd(SubSeq(t, 1, Len(t) - 1)) ELSE t

\* String.prototype.trim
Trim(t) == TrimEnd(TrimStart(t))

\* String.prototype.split('\n'): the lines of t, at least one
RECURSIVE SplitLines(_)
SplitLines(t) ==
    IF \A i \in 1..Len(t) : t[i] # "NL"
    THEN <<t>>
    ELSE LET k == CHOOSE i \in 1..Len(t) :
                      t[i] = "NL" /\ \A j \in 1..(i - 1) : t[j] # "NL"
         IN  <<SubSeq(t, 1, k - 1)>> \o SplitLines(SubSeq(t, k + 1, Len(t)))

\* String.prototype.startsWith
StartsWith(t, p) == Len(t) >= Len(p) /\ SubSeq(t, 1, Len(p)) = p

\* inputLineCount: inputCode ? inputCode.split('\n').length : 1
LineCount(t) == IF t = <<>> THEN 1 ELSE Len(SplitLines(t))

\* [a-zA-Z]
IsAlpha(c) == c \in UpperLetters \cup LowerLetters \cup LetterWords
\* \w
IsWord(c) == IsAlpha(c) \/ c \in Digits \/ c = "_"
IsDigit(c) == c \in Digits
\* the token begins with a \w character
BeginsWord(c) == IsWord(c) \/ c \in PunctWords

\* the last index of the longest run of tokens satisfying P that starts at i
\* (i - 1 when the run is empty)
RunEnd(t, i, P(_)) ==
    LET ends == {i - 1} \cup {j \in i..Len(t) : \A k \in i..j : P(t[k])}
    IN  CHOOSE j \in ends : \A m \in ends : m <= j

At(t, i) == IF i \in 1..Len(t) THEN t[i] ELSE "EOF"

DigitValue(c) == CHOOSE n \in 0..9 : <<"0", "1", "2", "3", "4", "5", "6", "7", "8", "9">>[n + 1] = c

\* parseInt(digits, 10)
RECURSIVE ParseInt(_)
ParseInt(d) ==
    IF d = <<>> THEN 0
    ELSE 10 * ParseInt(SubSeq(d, 1, Len(d) - 1)) + DigitValue(d[Len(d)])

Null == 0 - 1

\* /\((\d+):\d+\)/ matched at position i; the captured digits or <<>>
MatchRowCol(t, i) ==
    LET j == RunEnd(t, i + 1, IsDigit)
        k == RunEnd(t, j + 2, IsDigit)
    IN  IF At(t, i) = "(" /\ j >= i + 1 /\ At(t, j + 1) = ":"
           /\ k >= j + 2 /\ At(t, k + 1) = ")"
        THEN SubSeq(t, i + 1, j) ELSE <<>>

\* /line\s+(\d+)/i matched at position i
MatchLineWord(t, i) ==
    LET j == RunEnd(t, i + 1, IsSpace)
        k == RunEnd(t, j + 1, IsDigit)
    IN  IF At(t, i) \in LineWords /\ j >= i + 1 /\ k >= j + 1
        THEN SubSeq(t, j + 1, k) ELSE <<>>

\* />\s*(\d+)\s*\|/ matched at position i
MatchGutter(t, i) ==
    LET j == RunEnd(t, i + 1, IsSpace)
        k == RunEnd(t, j + 1, IsDigit)
        m == RunEnd(t, k + 1, IsSpace)
    IN  IF At(t, i) = ">" /\ k >= j + 1 /\ At(t, m + 1) = "|"
        THEN SubSeq(t, j + 1, k) ELSE <<>>

\* message.match(pattern): the capture of the leftmost match, or <<>>
FirstMatch(t, M(_, _)) ==
    LET hits == {i \in 1..Len(t) : M(t, i) # <<>>}
    IN  IF hits = {} THEN <<>>
        ELSE M(t, CHOOSE i \in hits : \A h \in hits : i <= h)

\* the capture of whichever pattern matches leftmost in the message
extractErrorLineNumber_Leftmost(message) ==
    LET CaptureAt(t, i) ==
            IF MatchRowCol(t, i) # <<>> THEN MatchRowCol(t, i)
            ELSE IF MatchLineWord(t, i) # <<>> THEN MatchLineWord(t, i)
            ELSE MatchGutter(t, i)
        hits == {i \in 1..Len(message) : CaptureAt(message, i) # <<>>}
    IN  IF hits = {} THEN Null
        ELSE ParseInt(CaptureAt(message, CHOOSE i \in hits : \A h \in hits : i <= h))

extractErrorLineNumber(message) ==
    IF FirstMatch(message, MatchRowCol) # <<>>
    THEN ParseInt(FirstMatch(message, MatchRowCol))
    ELSE IF FirstMatch(message, MatchLineWord) # <<>>
    THEN ParseInt(FirstMatch(message, MatchLineWord))
    ELSE IF FirstMatch(message, MatchGutter) # <<>>
    THEN ParseInt(FirstMatch(message, MatchGutter))
    ELSE Null

\* some position of t satisfies the pattern M
Test(t, M(_, _)) == \E i \in 1..Len(t) : M(t, i)

\* /:\s*(string|number|boolean|any|void|never|unknown|object)\b/
TsPrimitive(t, i) ==
    LET j == RunEnd(t, i + 1, IsSpace)
    IN  At(t, i) = ":" /\ At(t, j + 1) \in PrimitiveTypes /\ ~BeginsWord(At(t, j + 2))

\* /interface\s+\w+/
TsInterface(t, i) ==
    LET j == RunEnd(t, i + 1, IsSpace)
    IN  At(t, i) = "interface" /\ j >= i + 1 /\ BeginsWord(At(t, j + 1))

\* /type\s+\w+\s*=/
TsTypeAlias(t, i) ==
    LET j == RunEnd(t, i + 1, IsSpace)
        k == RunEnd(t, j + 1, IsWord)
        m == RunEnd(t, k + 1, IsSpace)
    IN  At(t, i) = "type" /\ j >= i + 1 /\ k >= j + 1 /\ At(t, m + 1) = "="

\* /<[A-Z]\w*>/
TsGeneric(t, i) ==
    LET k == RunEnd(t, i + 2, IsWord)
    IN  At(t, i) = "<" /\ At(t, i + 1) \in UpperLetters /\ At(t, k + 1) = ">"

\* /:\s*\w+\[\]/
TsArray(t, i) ==
    LET j == RunEnd(t, i + 1, IsSpace)
        k == RunEnd(t, j + 1, IsWord)
    IN  At(t, i) = ":" /\ k >= j + 1 /\ At(t, k + 1) = "[" /\ At(t, k + 2) = "]"

\* /as\s+(const|string|number)/
TsAsCast(t, i) ==
    LET j == RunEnd(t, i + 1, IsSpace)
    IN  At(t, i) = "as" /\ j >= i + 1 /\ At(t, j + 1) \in {"const", "string", "number"}

\* /<[A-Z][a-zA-Z]*[\s/>]/
JsxOpenTag(t, i) ==
    LET k == RunEnd(t, i + 2, IsAlpha)
    IN  At(t, i) = "<" /\ At(t, i + 1) \in UpperLetters
        /\ At(t, k + 1) \in {" ", "NL", "/", ">"}

\* /<\/[A-Z][a-zA-Z]*>/
JsxCloseTag(t, i) ==
    LET k == RunEnd(t, i + 3, IsAlpha)
    IN  At(t, i) = "<" /\ At(t, i + 1) = "/" /\ At(t, i + 2) \in UpperLetters
        /\ At(t, k + 1) = ">"

\* /<>[\s\S]*<\/>/
JsxFragment(t, i) ==
    At(t, i) = "<" /\ At(t, i + 1) = ">"
    /\ \E j \in (i + 2)..Len(t) : At(t, j) = "<" /\ At(t, j + 1) = "/" /\ At(t, j + 2) = ">"

\* /className=/, /onClick=/, /React\./, /useState|useEffect|useCallback|useMemo/
JsxWord(t, i) == At(t, i) \in PunctWords \cup HookNames

hasTypeAnnotations(code) ==
    \/ Test(code, TsPrimitive)
    \/ Test(code, TsInterface)
    \/ Test(code, TsTypeAlias)
    \/ Test(code, TsGeneric)
    \/ Test(code, TsArray)
    \/ Test(code, TsAsCast)

hasJsx(code) ==
    \/ Test(code, JsxOpenTag)
    \/ Test(code, JsxCloseTag)
    \/ Test(code, JsxFragment)
    \/ Test(code, JsxWord)

\* the decision with the TypeScript signal looked at alone first
detectLanguage_TsFirst(code) ==
    IF hasTypeAnnotations(code) THEN "typescript"
    ELSE IF hasJsx(code) THEN "jsx"
    ELSE "javascript"

detectLanguage(code) ==
    IF hasTypeAnnotations(code) /\ hasJsx(code) THEN "tsx"
    ELSE IF hasTypeAnnotations(code) THEN "typescript"
    ELSE IF hasJsx(code) THEN "jsx"
    ELSE "javascript"

\* LANGUAGE_CONFIG[language].parser, with the fallback to LANGUAGE_CONFIG.javascript
ParserOf(language) ==
    IF language \in {"typescript", "tsx"} THEN "typescript" ELSE "babel"

\* ---- the line diff ----
\* The tokens Diff.diffLines compares: the lines of the text, each with the
\* newline that ends it, so that a last line without a newline differs from
\* the same line followed by one.  A token is <<line, endsWithNewline>>.
RECURSIVE LineTokens(_)
LineTokens(t) ==
    IF t = <<>> THEN <<>>
    ELSE IF \A i \in 1..Len(t) : t[i] # "NL" THEN << <<t, FALSE>> >>
    ELSE LET k == CHOOSE i \in 1..Len(t) :
                      t[i] = "NL" /\ \A j \in 1..(i - 1) : t[j] # "NL"
         IN  << <<SubSeq(t, 1, k - 1), TRUE>> >> \o LineTokens(SubSeq(t, k + 1, Len(t)))

\* the length of a longest common subsequence of two token sequences
RECURSIVE LcsLen(_, _)
LcsLen(a, b) ==
    IF a = <<>> \/ b = <<>> THEN 0
    ELSE IF Head(a) = Head(b) THEN 1 + LcsLen(Tail(a), Tail(b))
    ELSE LET l == LcsLen(Tail(a), b)
             r == LcsLen(a, Tail(b))
         IN  IF l >= r THEN l ELSE r

\* a line diff that finds no common line: all removed, then all added
DiffTokens_NoCommon(a, b) ==
    [i \in 1..Len(a) |-> [type |-> "removed", token |-> a[i]]]
        \o [i \in 1..Len(b) |-> [type |-> "added", token |-> b[i]]]

\* Diff.diffLines(original, formatted) as a sequence of one-token changes in
\* the order of the parts: a shortest edit script, removals before additions
RECURSIVE DiffTokens(_, _)
DiffTokens(a, b) ==
    IF a = <<>> THEN [i \in 1..Len(b) |-> [type |-> "added", token |-> b[i]]]
    ELSE IF b = <<>> THEN [i \in 1..Len(a) |-> [type |-> "removed", token |-> a[i]]]
    ELSE IF Head(a) = Head(b)
    THEN <<[type |-> "unchanged", token |-> Head(b)]>> \o DiffTokens(Tail(a), Tail(b))
    ELSE IF LcsLen(Tail(a), b) >= LcsLen(a, Tail(b))
    THEN <<[type |-> "removed", token |-> Head(a)]>> \o DiffTokens(Tail(a), b)
    ELSE <<[type |-> "added", token |-> Head(b)]>> \o DiffTokens(a, Tail(b))

diffLines(original, formatted) == DiffTokens(LineTokens(original), LineTokens(formatted))

\* escapeHtml (lines 177-181): the innerHTML of a text node, with the
\* characters &, < and > written as entities
escapeHtml(text) ==
    [i \in 1..Len(text) |->
        CASE text[i] = "&" -> "&amp;"
          [] text[i] = "<" -> "&lt;"
          [] text[i] = ">" -> "&gt;"
          [] OTHER -> text[i]]

\* escapeHtml(line) || '&nbsp;'
escapedLine(line) == IF escapeHtml(line) = <<>> THEN <<"&nbsp;">> ELSE escapeHtml(line)

\* the loop of generateDiffView numbering the removed lines as well
RECURSIVE NumberLines_CountRemoved(_, _)
NumberLines_CountRemoved(changes, lineNum) ==
    IF changes = <<>> THEN <<>>
    ELSE LET c == Head(changes)
         IN  <<[type |-> c.type,
                lineNum |-> IF c.type = "removed" THEN Null ELSE lineNum,
                line |-> escapedLine(c.token[1])]>>
                 \o NumberLines_CountRemoved(Tail(changes), lineNum + 1)

\* the loop of generateDiffView skipping the empty lines
RECURSIVE NumberLines_SkipEmpty(_, _)
NumberLines_SkipEmpty(changes, lineNum) ==
    IF changes = <<>> THEN <<>>
    ELSE LET c == Head(changes)
         IN  IF c.token[1] = <<>> THEN NumberLines_SkipEmpty(Tail(changes), lineNum)
             ELSE IF c.type = "removed"
             THEN <<[type |-> "removed", lineNum |-> Null, line |-> escapedLine(c.token[1])]>>
                      \o NumberLines_SkipEmpty(Tail(changes), lineNum)
             ELSE <<[type |-> c.type, lineNum |-> lineNum, line |-> escapedLine(c.token[1])]>>
                      \o NumberLines_SkipEmpty(Tail(changes), lineNum + 1)

\* the loop of generateDiffView (lines 202-224): one record for every line of
\* every part, with lineNum++ on the added and unchanged lines
RECURSIVE NumberLines(_, _)
NumberLines(changes, lineNum) ==
    IF changes = <<>> THEN <<>>
    ELSE LET c == Head(changes)
         IN  IF c.type = "removed"
             THEN <<[type |-> "removed", lineNum |-> Null, line |-> escapedLine(c.token[1])]>>
                      \o NumberLines(Tail(changes), lineNum)
             ELSE <<[type |-> c.type, lineNum |-> lineNum, line |-> escapedLine(c.token[1])]>>
                      \o NumberLines(Tail(changes), lineNum + 1)

\* generateDiffView(original, formatted): one record per displayed line, with
\* the class of its <div>, its number and the text inside the <div>
generateDiffView(original, formatted) == NumberLines(diffLines(original, formatted), 1)

\* the diffInfo of generateDiffView: the records without the text of the line
DiffInfo(view) == [i \in 1..Len(view) |-> [type |-> view[i].type, lineNum |-> view[i].lineNum]]

\* ---- the inputs of the model ----
\* texts the user types, pastes or uploads
EmptyText == <<>>
BlankText == <<" ", "NL">>
OneLine == <<"a">>
TwoLines == <<"a", "NL", "b", "NL">>
\* exactly MAX_INPUT_LENGTH characters, and one more
FullText == <<"xx", "a", "a">>
OversizeText == <<"xx", "a", "a", "a">>
EditTexts == {BlankText, OneLine, OversizeText}
\* texts the clipboard holds
PasteTexts == {FullText, OversizeText}

\* what prettier.format resolves to
EngineOutputs == {<<"a", "NL">>, <<" ", "a", "NL", "b", "NL">>}
\* the message of the error prettier.format rejects with: the reason with
\* its (row:col), then the code frame, for an error in this line of the text
ErrorAt(n) ==
    LET d == <<"1", "2">>[n]
    IN  <<"e", " ", "(", d, ":", "1", ")", "NL", ">", " ", d, " ", "|", " ", "a">>
\* the lines an error message of the model can point at
ErrorLines == {1, 2}
EngineErrors == {ErrorAt(n) : n \in ErrorLines}

Languages == {"javascript", "jsx", "typescript", "tsx"}

\* SAMPLE_CODE, each sample cut down to a few of its tokens
SAMPLE_CODE(language) ==
    CASE language = "javascript" -> <<"a", "(", "b", ")", ";">>
      [] language = "jsx" -> <<"<", "b", " ", "onClick=", "a", ">">>
      [] language = "typescript" -> <<"interface", " ", "A", " ", "a", ":", " ", "string">>
      [] language = "tsx" -> <<"useState", "<", "string", ">", "<", "b", " ", "className=", ">">>
      [] OTHER -> <<>>

\* ---- the state ----
VARIABLES
    inputCode, outputCode, selectedLanguage, status, errorMessage, showError,
    isDiffView, options, lastFormattedCode, lastInputCode, errorLineNumber,
    uploadedFileName, formatTimeoutId, statusTimeoutId, outputDiffInfo,
    userHasModifiedInput, showLanguageChangeWarning, pendingLanguageChange,
    previousLanguage,
    \* the pending setTimeout timers: [kind, remaining, held], held when the
    \* variable formatTimeoutId or statusTimeoutId holds the id of the timer
    timers,
    \* the prettier.format calls not yet settled, in the order of their start
    inflight,
    \* the FileReader and clipboard reads and writes not yet settled
    reading, pasting, copying,
    \* the component is mounted
    mounted,
    \* history: the last operation; the time since the last edit and since the
    \* last updateStatus, running while a timer of the kind is pending
    lastOp, sinceEdit, statusAge,
    \* history: the number of edits of the burst, the edits that found the
    \* debounce timer of the edit before them still pending
    burst,
    \* the number of operations the user has left in this session
    ops,
    \* a call of one of the pure functions of the page on its own: the
    \* function, its arguments and, once it has returned, its result
    pure

vars ==
    <<inputCode, outputCode, selectedLanguage, status, errorMessage, showError,
      isDiffView, options, lastFormattedCode, lastInputCode, errorLineNumber,
      uploadedFileName, formatTimeoutId, statusTimeoutId, outputDiffInfo,
      userHasModifiedInput, showLanguageChangeWarning, pendingLanguageChange,
      previousLanguage, timers, inflight, reading, pasting, copying, mounted,
      lastOp, sinceEdit, statusAge, burst, ops, pure>>

\* the program state as one record, so that a handler is a function of it
S ==
    [inputCode |-> inputCode, outputCode |-> outputCode,
     selectedLanguage |-> selectedLanguage, status |-> status,
     errorMessage |-> errorMessage, showError |-> showError,
     isDiffView |-> isDiffView, options |-> options,
     lastFormattedCode |-> lastFormattedCode, lastInputCode |-> lastInputCode,
     errorLineNumber |-> errorLineNumber, uploadedFileName |-> uploadedFileName,
     formatTimeoutId |-> formatTimeoutId, statusTimeoutId |-> statusTimeoutId,
     outputDiffInfo |-> outputDiffInfo,
     userHasModifiedInput |-> userHasModifiedInput,
     showLanguageChangeWarning |-> showLanguageChangeWarning,
     pendingLanguageChange |-> pendingLanguageChange,
     previousLanguage |-> previousLanguage, timers |-> timers,
     inflight |-> inflight, statusAge |-> statusAge]

\* undefined / null
Undefined == "undefined"
TimerId == "id"
NoDiff == <<>>
NoLanguage == "null"
NoFile == "null"

\* clearTimeout(id) for the timer of this kind whose id the variable holds
clearTimeout(pool, kind, id) ==
    IF id = Undefined THEN pool
    ELSE {t \in pool : ~(t.kind = kind /\ t.held)}

\* setTimeout(callback, delay), the id stored in the variable of this kind
setTimeout(pool, kind, delay) ==
    {IF t.kind = kind THEN [t EXCEPT !.held = FALSE] ELSE t : t \in pool}
        \cup {[kind |-> kind, remaining |-> delay, held |-> TRUE]}

\* updateStatus without clearTimeout(statusTimeoutId)
updateStatus_NoClear(s, text, duration) ==
    [s EXCEPT !.status = text,
              !.timers = setTimeout(s.timers, "status", duration),
              !.statusTimeoutId = TimerId,
              !.statusAge = 0]

updateStatus(s, text, duration) ==
    [s EXCEPT !.status = text,
              !.timers = setTimeout(clearTimeout(s.timers, "status", s.statusTimeoutId),
                                    "status", duration),
              !.statusTimeoutId = TimerId,
              !.statusAge = 0]

displayError(s, message) ==
    updateStatus([s EXCEPT !.errorMessage = message, !.showError = TRUE],
                 "error", ERROR_STATUS_DURATION_MS)

hideError(s) == [s EXCEPT !.showError = FALSE, !.errorLineNumber = Null]

effectiveLanguage(s) ==
    IF s.selectedLanguage = "auto" THEN detectLanguage(s.inputCode)
    ELSE s.selectedLanguage

\* formatCode with the size guard written >= : the limit itself is refused
formatCode_InclusiveLimit(s) ==
    LET h == hideError(s)
    IN  IF StrLen(h.inputCode) >= MAX_INPUT_LENGTH
        THEN displayError(h, <<"Input too large">>)
        ELSE LET g == [h EXCEPT !.lastInputCode = h.inputCode]
             IN  IF Trim(g.inputCode) = <<>>
                 THEN [g EXCEPT !.outputCode = <<>>, !.lastFormattedCode = <<>>,
                                !.outputDiffInfo = NoDiff]
                 ELSE LET u == updateStatus(g, "formatting...", FORMATTING_STATUS_MS)
                      IN  [u EXCEPT !.inflight =
                              Append(@, [input |-> u.inputCode,
                                         parser |-> ParserOf(effectiveLanguage(u)),
                                         options |-> u.options,
                                         stale |-> FALSE])]

\* formatCode up to the await of prettier.format (lines 229-265)
formatCode(s) ==
    LET h == hideError(s)
    IN  IF StrLen(h.inputCode) > MAX_INPUT_LENGTH
        THEN displayError(h, <<"Input too large">>)
        ELSE LET g == [h EXCEPT !.lastInputCode = h.inputCode]
             IN  IF Trim(g.inputCode) = <<>>
                 THEN [g EXCEPT !.outputCode = <<>>, !.lastFormattedCode = <<>>,
                                !.outputDiffInfo = NoDiff]
                 ELSE LET u == updateStatus(g, "formatting...", FORMATTING_STATUS_MS)
                      IN  [u EXCEPT !.inflight =
                              Append(@, [input |-> u.inputCode,
                                         parser |-> ParserOf(effectiveLanguage(u)),
                                         options |-> u.options,
                                         stale |-> FALSE])]

\* the success branch without lastFormattedCode = trimmedCode
formatResolved_NoSnapshot(s, formattedCode) ==
    LET trimmedCode == Trim(formattedCode)
        t == [s EXCEPT !.outputCode = trimmedCode,
                       !.outputDiffInfo =
                           IF s.isDiffView
                           THEN <<DiffInfo(generateDiffView(s.inputCode, trimmedCode))>>
                           ELSE NoDiff]
    IN  updateStatus(t, "formatted", STATUS_DURATION_MS)

\* the success branch showing its status for the duration of an error
formatResolved_ErrorDuration(s, formattedCode) ==
    LET trimmedCode == Trim(formattedCode)
        t == [s EXCEPT !.lastFormattedCode = trimmedCode, !.outputCode = trimmedCode,
                       !.outputDiffInfo =
                           IF s.isDiffView
                           THEN <<DiffInfo(generateDiffView(s.inputCode, trimmedCode))>>
                           ELSE NoDiff]
    IN  updateStatus(t, "formatted", ERROR_STATUS_DURATION_MS)

\* the success branch keeping the untrimmed result as the snapshot
formatResolved_Untrimmed(s, formattedCode) ==
    LET trimmedCode == Trim(formattedCode)
        t == [s EXCEPT !.lastFormattedCode = formattedCode, !.outputCode = trimmedCode,
                       !.outputDiffInfo =
                           IF s.isDiffView
                           THEN <<DiffInfo(generateDiffView(s.inputCode, trimmedCode))>>
                           ELSE NoDiff]
    IN  updateStatus(t, "formatted", STATUS_DURATION_MS)

\* formatCode after prettier.format resolved with formattedCode (lines 267-285)
formatResolved(s, formattedCode) ==
    LET trimmedCode == Trim(formattedCode)
        t == [s EXCEPT !.lastFormattedCode = trimmedCode, !.outputCode = trimmedCode,
                       !.outputDiffInfo =
                           IF s.isDiffView
                           THEN <<DiffInfo(generateDiffView(s.inputCode, trimmedCode))>>
                           ELSE NoDiff]
    IN  updateStatus(t, "formatted", STATUS_DURATION_MS)

\* errorLines[0] || 'Unknown error'
shortErrorMessage(message) ==
    IF SplitLines(message)[1] = <<>> THEN <<"Unknown error">> ELSE SplitLines(message)[1]

\* the text handleFormatError puts in outputCode
Placeholder(message) == <<FF, CK, "NL", ER>> \o message

\* handleFormatError without the assignment of the placeholder to outputCode
handleFormatError_KeepOutput(s, message) ==
    LET e == [s EXCEPT !.errorLineNumber = extractErrorLineNumber(message)]
        d == displayError(e, shortErrorMessage(message))
    IN  [d EXCEPT !.outputDiffInfo = NoDiff]

handleFormatError(s, message) ==
    LET e == [s EXCEPT !.errorLineNumber = extractErrorLineNumber(message)]
        d == displayError(e, shortErrorMessage(message))
    IN  [d EXCEPT !.outputCode = Placeholder(message), !.outputDiffInfo = NoDiff]

\* handleInputChange without clearTimeout(formatTimeoutId)
handleInputChange_NoClear(s) ==
    [s EXCEPT !.userHasModifiedInput = TRUE,
              !.timers = setTimeout(s.timers, "format", DEBOUNCE_DELAY_MS),
              !.formatTimeoutId = TimerId]

\* handleInputChange (lines 309-320)
handleInputChange(s) ==
    [s EXCEPT !.userHasModifiedInput = TRUE,
              !.timers = setTimeout(clearTimeout(s.timers, "format", s.formatTimeoutId),
                                    "format", DEBOUNCE_DELAY_MS),
              !.formatTimeoutId = TimerId]

\* clearAll (lines 463-474)
clearAll(s) ==
    LET c == [s EXCEPT !.inputCode = <<>>, !.outputCode = <<>>,
                       !.lastFormattedCode = <<>>, !.lastInputCode = <<>>,
                       !.uploadedFileName = NoFile, !.errorLineNumber = Null,
                       !.outputDiffInfo = NoDiff, !.userHasModifiedInput = FALSE]
    IN  updateStatus(hideError(c), "cleared", CLEARED_STATUS_MS)

\* applyLanguageChange (lines 486-503)
applyLanguageChange(s, newLanguage) ==
    LET a == [s EXCEPT !.selectedLanguage = newLanguage,
                       !.previousLanguage = newLanguage,
                       !.userHasModifiedInput = FALSE]
        b == IF newLanguage = "auto"
             THEN [a EXCEPT !.inputCode = <<>>, !.outputCode = <<>>,
                            !.lastFormattedCode = <<>>, !.lastInputCode = <<>>]
             ELSE formatCode([a EXCEPT !.inputCode = SAMPLE_CODE(newLanguage)])
    IN  [b EXCEPT !.showLanguageChangeWarning = FALSE,
                  !.pendingLanguageChange = NoLanguage]

\* handleLanguageChange (lines 476-484), after bind:value stored the selection
handleLanguageChange(s, newLanguage) ==
    IF s.userHasModifiedInput /\ Trim(s.inputCode) # <<>>
    THEN [s EXCEPT !.pendingLanguageChange = newLanguage,
                   !.showLanguageChangeWarning = TRUE]
    ELSE applyLanguageChange(s, newLanguage)

\* confirmLanguageChange (lines 505-510)
confirmLanguageChange(s) ==
    IF s.pendingLanguageChange # NoLanguage
    THEN applyLanguageChange([s EXCEPT !.previousLanguage = s.pendingLanguageChange],
                             s.pendingLanguageChange)
    ELSE s

\* cancelLanguageChange (lines 512-517)
cancelLanguageChange(s) ==
    [s EXCEPT !.selectedLanguage = s.previousLanguage,
              !.showLanguageChangeWarning = FALSE,
              !.pendingLanguageChange = NoLanguage]

\* toggleDiffView running formatCode for the new view
toggleDiffView_Reformat(s) ==
    formatCode([s EXCEPT !.isDiffView = ~s.isDiffView])

\* toggleDiffView (lines 519-537)
toggleDiffView(s) ==
    LET t == [s EXCEPT !.isDiffView = ~s.isDiffView]
    IN  IF t.lastFormattedCode # <<>>
        THEN [t EXCEPT !.outputDiffInfo =
                  IF t.isDiffView
                  THEN <<DiffInfo(generateDiffView(t.lastInputCode, t.lastFormattedCode))>>
                  ELSE NoDiff]
        ELSE t

\* the guard of copyToClipboard and downloadFormattedCode with the prefix
\* test left out: the placeholder is copied and downloaded
NothingToActOn_EmptyOnly(s) == s.outputCode = <<>>

\* the copy and download guard: !outputCode || outputCode.startsWith('// Formatting failed')
NothingToActOn(s) == s.outputCode = <<>> \/ StartsWith(s.outputCode, <<FF>>)

\* downloadFormattedCode (lines 366-387)
downloadFormattedCode(s) ==
    IF NothingToActOn(s)
    THEN displayError(s, <<"No formatted code to download.">>)
    ELSE updateStatus(s, "downloaded", STATUS_DURATION_MS)

\* String.prototype.toLowerCase on the tokens of a file name
ToLowerCase(c) ==
    CASE c = "TS" -> "ts"
      [] c = "JSX" -> "jsx"
      [] c = "F" -> "f"
      [] OTHER -> c

\* file.name.split('.').pop()?.toLowerCase() || ''
RECURSIVE LastSegment(_)
LastSegment(name) ==
    IF \A i \in 1..Len(name) : name[i] # "." THEN name
    ELSE LastSegment(Tail(name))

Extension(name) == [i \in 1..Len(LastSegment(name)) |-> ToLowerCase(LastSegment(name)[i])]

\* what EXTENSION_TO_LANGUAGE.constructor is: the function Object, which the
\* object literal inherits from Object.prototype
ObjectFunction == "function Object"

\* EXTENSION_TO_LANGUAGE[extension] (lines 36-43, 330): the value of the key,
\* for a missing key the property the object inherits under that name, and
\* NoLanguage (undefined) when there is none
EXTENSION_TO_LANGUAGE(extension) ==
    CASE extension \in {<<"js">>, <<"mjs">>, <<"cjs">>} -> "javascript"
      [] extension = <<"jsx">> -> "jsx"
      [] extension = <<"ts">> -> "typescript"
      [] extension = <<"tsx">> -> "tsx"
      [] extension = <<"constructor">> -> ObjectFunction
      [] OTHER -> NoLanguage

\* the files the user uploads
Files ==
    { [name |-> <<"f", ".", "ts">>, size |-> 1, content |-> TwoLines],
      [name |-> <<"F", ".", "JSX">>, size |-> MAX_FILE_SIZE_BYTES, content |-> OversizeText],
      [name |-> <<"f", ".", "py">>, size |-> 1, content |-> OneLine],
      [name |-> <<"f", ".", "constructor">>, size |-> 1, content |-> OneLine],
      [name |-> <<"f", ".", "ts">>, size |-> MAX_FILE_SIZE_BYTES + 1, content |-> TwoLines] }

\* reader.onload of handleFileUpload (lines 341-357)
readerOnload(s, file) ==
    IF StrLen(file.content) > MAX_INPUT_LENGTH
    THEN displayError(s, <<"File content too large">>)
    ELSE LET l == [s EXCEPT !.inputCode = file.content,
                            !.uploadedFileName = file.name,
                            !.selectedLanguage = EXTENSION_TO_LANGUAGE(Extension(file.name)),
                            !.userHasModifiedInput = TRUE]
         IN  updateStatus(formatCode(l), "file loaded", STATUS_DURATION_MS)

\* pasteFromClipboard after readText resolved (lines 396-409)
pasteResolved(s, text) ==
    IF StrLen(text) > MAX_INPUT_LENGTH
    THEN displayError(s, <<"Content too large">>)
    ELSE LET l == [s EXCEPT !.inputCode = text, !.uploadedFileName = NoFile,
                            !.userHasModifiedInput = TRUE]
         IN  updateStatus(formatCode(l), "pasted!", STATUS_DURATION_MS)

\* ---- the actions ----
Op(name) == [op |-> name, stale |-> FALSE, arg |-> <<>>]

\* the program state becomes r
Commit(r, op) ==
    /\ inputCode' = r.inputCode
    /\ outputCode' = r.outputCode
    /\ selectedLanguage' = r.selectedLanguage
    /\ status' = r.status
    /\ errorMessage' = r.errorMessage
    /\ showError' = r.showError
    /\ isDiffView' = r.isDiffView
    /\ options' = r.options
    /\ lastFormattedCode' = r.lastFormattedCode
    /\ lastInputCode' = r.lastInputCode
    /\ errorLineNumber' = r.errorLineNumber
    /\ uploadedFileName' = r.uploadedFileName
    /\ formatTimeoutId' = r.formatTimeoutId
    /\ statusTimeoutId' = r.statusTimeoutId
    /\ outputDiffInfo' = r.outputDiffInfo
    /\ userHasModifiedInput' = r.userHasModifiedInput
    /\ showLanguageChangeWarning' = r.showLanguageChangeWarning
    /\ pendingLanguageChange' = r.pendingLanguageChange
    /\ previousLanguage' = r.previousLanguage
    /\ timers' = r.timers
    /\ inflight' = r.inflight
    /\ statusAge' = r.statusAge
    /\ lastOp' = op
    /\ UNCHANGED pure

\* the user can reach the controls of the page: it is mounted and the
\* language warning, a modal overlay, is not shown
Interactive == mounted /\ ~showLanguageChangeWarning

\* an operation of the user, taken from those left; the answer to the
\* language warning belongs to the selection that raised it
UserOp == ops > 0 /\ ops' = ops - 1

\* the state of the component as constructed (lines 55-89)
Constructed ==
    /\ inputCode = <<>>
    /\ outputCode = <<>>
    /\ selectedLanguage = "auto"
    /\ status = "ready"
    /\ errorMessage = <<>>
    /\ showError = FALSE
    /\ isDiffView = FALSE
    /\ options = [tabWidth |-> 4, printWidth |-> 88, trailingComma |-> "es5",
                  useSemi |-> TRUE, useSingleQuote |-> FALSE]
    /\ lastFormattedCode = <<>>
    /\ lastInputCode = <<>>
    /\ errorLineNumber = Null
    /\ uploadedFileName = NoFile
    /\ formatTimeoutId = Undefined
    /\ statusTimeoutId = Undefined
    /\ outputDiffInfo = NoDiff
    /\ userHasModifiedInput = FALSE
    /\ showLanguageChangeWarning = FALSE
    /\ pendingLanguageChange = NoLanguage
    /\ previousLanguage = "auto"
    /\ timers = {}
    /\ inflight = <<>>
    /\ reading = <<>>
    /\ pasting = FALSE
    /\ copying = FALSE
    /\ mounted = TRUE
    /\ lastOp = Op("init")
    /\ sinceEdit = 0
    /\ statusAge = 0
    /\ burst = 0

\* no pure function is called on its own
NoCall == [fn |-> "none", args |-> <<>>, returned |-> FALSE, result |-> <<>>]

Init == Constructed /\ ops = MaxOps /\ pure = NoCall

\* the user types in the textarea: bind:value stores the text, oninput runs
\* handleInputChange
Edit(text) ==
    /\ UserOp
    /\ Interactive
    /\ text # inputCode
    /\ Commit(handleInputChange([S EXCEPT !.inputCode = text]),
              [op |-> "edit", stale |-> FALSE, arg |-> text])
    /\ sinceEdit' = 0
    /\ burst' = IF \E t \in timers : t.kind = "format" THEN burst + 1 ELSE 1
    /\ UNCHANGED <<reading, pasting, copying, mounted>>

\* the debounce timer fires: formatCode(); formatTimeoutId = undefined
DebounceFire ==
    \E t \in timers :
        /\ UNCHANGED ops
        /\ t.kind = "format" /\ t.remaining = 0
        /\ LET f == formatCode([S EXCEPT !.timers = @ \ {t}])
           IN  Commit([f EXCEPT !.formatTimeoutId = Undefined,
                                !.timers = {IF x.kind = "format"
                                            THEN [x EXCEPT !.held = FALSE] ELSE x :
                                            x \in @}],
                      Op("debounce"))
        /\ UNCHANGED <<reading, pasting, copying, mounted, sinceEdit, burst>>

\* the status timer fires (lines 159-163)
StatusFire ==
    \E t \in timers :
        /\ UNCHANGED ops
        /\ t.kind = "status" /\ t.remaining = 0
        /\ Commit([S EXCEPT !.status = "ready", !.statusTimeoutId = Undefined,
                            !.timers = {IF x.kind = "status"
                                        THEN [x EXCEPT !.held = FALSE] ELSE x :
                                        x \in @ \ {t}}],
                  Op("statusTimer"))
        /\ UNCHANGED <<reading, pasting, copying, mounted, sinceEdit, burst>>

Min(a, b) == IF a <= b THEN a ELSE b

\* time passes up to the next expiry, and by TickStep at most while a
\* debounce timer is pending, so that edits fall inside the debounce window
Tick ==
    /\ UNCHANGED ops
    /\ \A t \in timers : t.remaining > 0
    /\ LET limits == {t.remaining : t \in timers}
                         \cup (IF \A t \in timers : t.kind # "format"
                               THEN {ERROR_STATUS_DURATION_MS + 1} ELSE {TickStep})
           d == CHOOSE m \in limits : \A x \in limits : m <= x
       IN  /\ timers' = {[t EXCEPT !.remaining = @ - d] : t \in timers}
           /\ sinceEdit' = IF \E t \in timers : t.kind = "format"
                           THEN sinceEdit + d ELSE sinceEdit
           /\ statusAge' = IF \E t \in timers : t.kind = "status"
                           THEN statusAge + d ELSE statusAge
    /\ UNCHANGED <<lastOp, inputCode, outputCode, selectedLanguage, status, errorMessage,
                   showError, isDiffView, options, lastFormattedCode, lastInputCode,
                   errorLineNumber, uploadedFileName, formatTimeoutId,
                   statusTimeoutId, outputDiffInfo, userHasModifiedInput,
                   showLanguageChangeWarning, pendingLanguageChange,
                   previousLanguage, inflight, reading, pasting, copying, mounted,
                   burst, pure>>

\* the Format button or Ctrl+Enter: formatCode()
FormatNow ==
    /\ UserOp
    /\ mounted
    /\ Commit(formatCode(S), Op("formatNow"))
    /\ UNCHANGED <<reading, pasting, copying, mounted, sinceEdit, burst>>

\* an option change that arms the debounce timer and leaves the format to it
OptionChange_Debounced(field, value) ==
    /\ UserOp
    /\ Interactive
    /\ options[field] # value
    /\ Commit([S EXCEPT !.options[field] = value,
                        !.timers = setTimeout(clearTimeout(timers, "format", formatTimeoutId),
                                              "format", DEBOUNCE_DELAY_MS),
                        !.formatTimeoutId = TimerId],
              Op("option"))
    /\ sinceEdit' = 0
    /\ UNCHANGED <<reading, pasting, copying, mounted, burst>>

\* an option of the settings panel changes: bind:value or the toggle stores
\* the value, then formatCode() (lines 716-799)
OptionChange(field, value) ==
    /\ UserOp
    /\ Interactive
    /\ options[field] # value
    /\ Commit(formatCode([S EXCEPT !.options[field] = value]), Op("option"))
    /\ UNCHANGED <<reading, pasting, copying, mounted, sinceEdit, burst>>

SetTabWidth == \E v \in {2, 4} : OptionChange("tabWidth", v)
SetPrintWidth == \E v \in {80, 88} : OptionChange("printWidth", v)
SetTrailingComma == \E v \in {"es5", "all"} : OptionChange("trailingComma", v)
ToggleSemi == OptionChange("useSemi", ~options.useSemi)
ToggleSingleQuote == OptionChange("useSingleQuote", ~options.useSingleQuote)

\* the engine calls still pending once call i settled; the calls started
\* before it are then stale: a call started after them has been applied
Settle(calls, i) ==
    [j \in 1..(Len(calls) - 1) |->
        IF j < i THEN [calls[j] EXCEPT !.stale = TRUE] ELSE calls[j + 1]]

\* prettier.format of call i resolves
Resolve(i, formattedCode) ==
    /\ UNCHANGED ops
    /\ Commit(formatResolved([S EXCEPT !.inflight = Settle(@, i)], formattedCode),
              [op |-> "resolved", stale |-> inflight[i].stale, arg |-> formattedCode])
    /\ UNCHANGED <<reading, pasting, copying, mounted, sinceEdit, burst>>

\* prettier.format of call i rejects with an error of this message, which
\* points at a line of the text the call was given
Reject(i, message) ==
    /\ UNCHANGED ops
    /\ extractErrorLineNumber(message) <= LineCount(inflight[i].input)
    /\ Commit(handleFormatError([S EXCEPT !.inflight = Settle(@, i)], message),
              [op |-> "rejected", stale |-> inflight[i].stale, arg |-> message])
    /\ UNCHANGED <<reading, pasting, copying, mounted, sinceEdit, burst>>

EngineResolves == \E i \in 1..Len(inflight) : \E r \in EngineOutputs : Resolve(i, r)
EngineRejects == \E i \in 1..Len(inflight) : \E m \in EngineErrors : Reject(i, m)

ToggleDiffView ==
    /\ UserOp
    /\ Interactive
    /\ Commit(toggleDiffView(S), Op("toggleDiff"))
    /\ UNCHANGED <<reading, pasting, copying, mounted, sinceEdit, burst>>

ClearAll ==
    /\ UserOp
    /\ Interactive
    /\ Commit(clearAll(S), Op("clear"))
    /\ UNCHANGED <<reading, pasting, copying, mounted, sinceEdit, burst>>

\* the language select changes: bind:value stores the selection, onchange
\* runs handleLanguageChange(selectedLanguage) (lines 669-672); the history
\* keeps the selection the user changed
SelectLanguage ==
    \E l \in {"auto", "jsx", "typescript"} :
        /\ UserOp
        /\ Interactive
        /\ l # selectedLanguage
        /\ Commit(handleLanguageChange([S EXCEPT !.selectedLanguage = l], l),
                  [op |-> "selectLanguage", stale |-> FALSE, arg |-> <<selectedLanguage>>])
        /\ UNCHANGED <<reading, pasting, copying, mounted, sinceEdit, burst>>

ConfirmLanguageChange ==
    /\ UNCHANGED ops
    /\ mounted /\ showLanguageChangeWarning
    /\ Commit(confirmLanguageChange(S), Op("confirmLanguage"))
    /\ UNCHANGED <<reading, pasting, copying, mounted, sinceEdit, burst>>

CancelLanguageChange ==
    /\ UNCHANGED ops
    /\ mounted /\ showLanguageChangeWarning
    /\ Commit(cancelLanguageChange(S), Op("cancelLanguage"))
    /\ UNCHANGED <<reading, pasting, copying, mounted, sinceEdit, burst>>

\* the Download button or Ctrl+S
Download ==
    /\ UserOp
    /\ mounted
    /\ Commit(downloadFormattedCode(S),
              Op(IF NothingToActOn(S) THEN "downloadRefused" ELSE "download"))
    /\ UNCHANGED <<reading, pasting, copying, mounted, sinceEdit, burst>>

\* handleFileUpload (lines 322-364) up to reader.readAsText
Upload ==
    \E file \in Files :
        /\ UserOp
        /\ Interactive
        /\ reading = <<>>
        /\ IF file.size > MAX_FILE_SIZE_BYTES
           THEN Commit(displayError(S, <<"File too large">>), Op("uploadRejected"))
                /\ UNCHANGED reading
           ELSE IF EXTENSION_TO_LANGUAGE(Extension(file.name)) = NoLanguage
           THEN Commit(displayError(S, <<"Unsupported file type">>), Op("uploadRejected"))
                /\ UNCHANGED reading
           ELSE Commit(S, Op("upload")) /\ reading' = <<file>>
        /\ UNCHANGED <<pasting, copying, mounted, sinceEdit, burst>>

\* the FileReader finishes: reader.onload
ReaderLoads ==
    /\ UNCHANGED ops
    /\ reading # <<>>
    /\ Commit(readerOnload(S, reading[1]), Op("fileLoaded"))
    /\ reading' = <<>>
    /\ UNCHANGED <<pasting, copying, mounted, sinceEdit, burst>>

\* the FileReader fails: reader.onerror
ReaderFails ==
    /\ UNCHANGED ops
    /\ reading # <<>>
    /\ Commit(displayError(S, <<"Failed to read file">>), Op("fileFailed"))
    /\ reading' = <<>>
    /\ UNCHANGED <<pasting, copying, mounted, sinceEdit, burst>>

\* pasteFromClipboard (lines 389-413) up to the await of readText
Paste ==
    /\ UserOp
    /\ Interactive
    /\ ~pasting
    /\ \/ Commit(displayError(S, <<"Clipboard paste not supported">>), Op("pasteUnsupported"))
          /\ UNCHANGED pasting
       \/ Commit(S, Op("paste")) /\ pasting' = TRUE
    /\ UNCHANGED <<reading, copying, mounted, sinceEdit, burst>>

\* navigator.clipboard.readText resolves with the text of the clipboard
PasteResolves ==
    \E text \in PasteTexts :
        /\ UNCHANGED ops
        /\ pasting
        /\ Commit(pasteResolved(S, text), Op("pasted"))
        /\ pasting' = FALSE
        /\ UNCHANGED <<reading, copying, mounted, sinceEdit, burst>>

\* navigator.clipboard.readText rejects
PasteRejects ==
    /\ UNCHANGED ops
    /\ pasting
    /\ Commit(displayError(S, <<"Failed to read from clipboard">>), Op("pasteFailed"))
    /\ pasting' = FALSE
    /\ UNCHANGED <<reading, copying, mounted, sinceEdit, burst>>

\* copyWithFallback (lines 434-461): execCommand('copy') succeeds or not
copyWithFallback(s, success) ==
    IF success THEN updateStatus(s, "copied!", STATUS_DURATION_MS)
    ELSE displayError(s, <<"Copy failed">>)

\* copyToClipboard (lines 415-432) up to the await of writeText; without the
\* clipboard API it goes to copyWithFallback at once
Copy ==
    /\ UserOp
    /\ mounted
    /\ ~copying
    /\ IF NothingToActOn(S)
       THEN Commit(displayError(S, <<"No formatted code to copy.">>), Op("copyRefused"))
            /\ UNCHANGED copying
       ELSE \/ Commit(S, Op("copy")) /\ copying' = TRUE
            \/ \E success \in BOOLEAN :
                  Commit(copyWithFallback(S, success), Op("copyFallback"))
                  /\ UNCHANGED copying
    /\ UNCHANGED <<reading, pasting, mounted, sinceEdit, burst>>

\* navigator.clipboard.writeText resolves
CopyResolves ==
    /\ UNCHANGED ops
    /\ copying
    /\ Commit(updateStatus(S, "copied!", STATUS_DURATION_MS), Op("copied"))
    /\ copying' = FALSE
    /\ UNCHANGED <<reading, pasting, mounted, sinceEdit, burst>>

\* navigator.clipboard.writeText rejects: copyWithFallback(outputCode)
CopyRejects ==
    \E success \in BOOLEAN :
        /\ UNCHANGED ops
        /\ copying
        /\ Commit(copyWithFallback(S, success), Op("copyRejected"))
        /\ copying' = FALSE
        /\ UNCHANGED <<reading, pasting, mounted, sinceEdit, burst>>

\* the function onMount returns (lines 634-642): the component is destroyed
Teardown ==
    /\ UserOp
    /\ mounted
    /\ mounted' = FALSE
    /\ Commit([S EXCEPT !.timers =
                   clearTimeout(clearTimeout(@, "format", formatTimeoutId),
                                "status", statusTimeoutId)],
              Op("teardown"))
    /\ UNCHANGED <<reading, pasting, copying, sinceEdit, burst>>

Next ==
    \/ \E text \in EditTexts : Edit(text)
    \/ DebounceFire
    \/ StatusFire
    \/ Tick
    \/ FormatNow
    \/ SetTabWidth
    \/ SetPrintWidth
    \/ SetTrailingComma
    \/ ToggleSemi
    \/ ToggleSingleQuote
    \/ EngineResolves
    \/ EngineRejects
    \/ ToggleDiffView
    \/ ClearAll
    \/ SelectLanguage
    \/ ConfirmLanguageChange
    \/ CancelLanguageChange
    \/ Download
    \/ Upload
    \/ ReaderLoads
    \/ ReaderFails
    \/ Paste
    \/ PasteResolves
    \/ PasteRejects
    \/ Copy
    \/ CopyResolves
    \/ CopyRejects
    \/ Teardown

Spec == Init /\ [][Next]_vars

\* ---- a session of view changes ----
\* the page as constructed, with ViewOps operations for the user
InitView == Constructed /\ ops = ViewOps /\ pure = NoCall

NextView ==
    \/ FormatNow
    \/ EngineResolves
    \/ EngineRejects
    \/ ToggleDiffView
    \/ ClearAll
    \/ SelectLanguage
    \/ ConfirmLanguageChange
    \/ CancelLanguageChange
    \/ Upload
    \/ ReaderLoads
    \/ ReaderFails

SpecView == InitView /\ [][NextView]_vars

\* ---- a session of formatting, copying and downloading ----
\* operations of the user in such a session
OutputOps == 2
\* a formatted text that opens with the comment "// Formatting failed"
CommentOutput == <<FF, "NL", "a", "NL">>

\* prettier.format of call i resolves, with a text of any beginning
EngineResolvesAny ==
    \E i \in 1..Len(inflight) : \E r \in EngineOutputs \cup {CommentOutput} : Resolve(i, r)

InitOutput == Constructed /\ ops = OutputOps /\ pure = NoCall

NextOutput ==
    \/ \E text \in EditTexts : Edit(text)
    \/ DebounceFire
    \/ Tick
    \/ FormatNow
    \/ SelectLanguage
    \/ EngineResolvesAny
    \/ EngineRejects
    \/ Download
    \/ Copy
    \/ CopyResolves
    \/ CopyRejects

SpecOutput == InitOutput /\ [][NextOutput]_vars

\* ---- the pure functions on their own ----
\* the variables of the session, which a call of a pure function leaves alone
sessionVars ==
    <<inputCode, outputCode, selectedLanguage, status, errorMessage, showError,
      isDiffView, options, lastFormattedCode, lastInputCode, errorLineNumber,
      uploadedFileName, formatTimeoutId, statusTimeoutId, outputDiffInfo,
      userHasModifiedInput, showLanguageChangeWarning, pendingLanguageChange,
      previousLanguage, timers, inflight, reading, pasting, copying, mounted,
      lastOp, sinceEdit, statusAge, burst, ops>>

\* the texts of no more than n tokens over an alphabet
TextsUpTo(alphabet, n) == UNION {[1..k -> alphabet] : k \in 0..n}

Call(fn, args) == [fn |-> fn, args |-> args, returned |-> FALSE, result |-> <<>>]

\* the texts given to generateDiffView: lines of a and <, empty lines, with
\* and without a final newline
DiffTexts == TextsUpTo({"a", "<", "NL"}, DiffLen)
DiffCalls == {Call("generateDiffView", <<o, f>>) : o \in DiffTexts, f \in DiffTexts}

\* the concatenations of no more than n of the fragments
RECURSIVE Flatten(_)
Flatten(parts) == IF parts = <<>> THEN <<>> ELSE Head(parts) \o Flatten(Tail(parts))
TextsOf(fragments, n) == {Flatten(parts) : parts \in TextsUpTo(fragments, n)}

\* fragments of error messages: a position "(n:1)", the words "line n", a
\* gutter "> n |", and pieces that break or lengthen them
RowColPart(d) == <<"(", d, ":", "1", ")">>
LineWordPart(d) == <<"line", " ", d>>
GutterPart(d) == <<">", " ", d, " ", "|">>
MessageFragments ==
    {RowColPart(d) : d \in {"1", "2"}}
        \cup {LineWordPart(d) : d \in {"2", "3"}}
        \cup {GutterPart(d) : d \in {"3", "4"}}
        \cup {<<"(", "5", ":">>, <<"Line", "NL", "6">>, <<">", "7", "|">>,
              <<"e">>, <<" ">>, <<"0">>}

\* "Unexpected token (3:10)", a letter e standing for each of its two words
UnexpectedToken == <<"e", " ", "e", " ", "(", "3", ":", "1", "0", ")">>

ExtractCalls ==
    {Call("extractErrorLineNumber", <<m>>) :
        m \in TextsOf(MessageFragments, MessageParts) \cup {UnexpectedToken}}

\* fragments of source text: the forms the patterns of detectLanguage look
\* for, forms that come close to them, and plain pieces
DetectFragments ==
    {<<":", " ", "string">>, <<":", "any">>, <<":", "a", "[", "]">>,
     <<"interface", " ", "A">>, <<"type", " ", "a", "=">>, <<"as", " ", "const">>,
     <<"<", "A", "b", ">">>, <<"<", "A", "1", ">">>, <<"<", "B", " ", "/", ">">>,
     <<"<", "/", "A", ">">>, <<"<", ">">>, <<"<", "/", ">">>,
     <<"className=">>, <<"React.">>, <<"useState">>,
     <<"a">>, <<" ">>, <<"1">>}

DetectCalls ==
    {Call("detectLanguage", <<code>>) : code \in TextsOf(DetectFragments, DetectParts)}

\* one call of one of the pure functions, not yet returned
InitPure ==
    /\ Constructed
    /\ ops = 0
    /\ \/ pure \in DiffCalls
       \/ pure \in ExtractCalls
       \/ pure \in DetectCalls

\* generateDiffView(original, formatted) returns
CallGenerateDiffView ==
    /\ pure.fn = "generateDiffView" /\ ~pure.returned
    /\ pure' = [pure EXCEPT !.returned = TRUE,
                            !.result = generateDiffView(pure.args[1], pure.args[2])]
    /\ UNCHANGED sessionVars

\* extractErrorLineNumber(message) returns
CallExtractErrorLineNumber ==
    /\ pure.fn = "extractErrorLineNumber" /\ ~pure.returned
    /\ pure' = [pure EXCEPT !.returned = TRUE,
                            !.result = extractErrorLineNumber(pure.args[1])]
    /\ UNCHANGED sessionVars

\* detectLanguage(code) returns
CallDetectLanguage ==
    /\ pure.fn = "detectLanguage" /\ ~pure.returned
    /\ pure' = [pure EXCEPT !.returned = TRUE,
                            !.result = detectLanguage(pure.args[1])]
    /\ UNCHANGED sessionVars

NextPure ==
    \/ CallGenerateDiffView
    \/ CallExtractErrorLineNumber
    \/ CallDetectLanguage

SpecPure == InitPure /\ [][NextPure]_vars

\* ---- the properties ----

\* the step is the operation of this name; time passing leaves lastOp alone
Did(name) == lastOp'.op = name /\ ~Tick

\* the pending timers of a kind
FormatTimers == {t \in timers : t.kind = "format"}
StatusTimers == {t \in timers : t.kind = "status"}

\* the operations that run formatCode on the input text as it is
FormatOps == {"debounce", "formatNow", "option"}
FormatRun == lastOp'.op \in FormatOps /\ ~Tick

\* the step starts one engine call, for this text, and no other
Invokes(text) ==
    /\ Len(inflight') = Len(inflight) + 1
    /\ SubSeq(inflight', 1, Len(inflight)) = inflight
    /\ inflight'[Len(inflight')].input = text
    /\ inflight'[Len(inflight')].options = options'

\* formatCode passes this text to the engine
PassesGuards(text) == StrLen(text) <= MAX_INPUT_LENGTH /\ Trim(text) # <<>>

\* C1: the completion, success or failure, of an engine call that was started
\* before a call whose result has already been applied changes none of
\* outputCode, lastFormattedCode, the diff mapping, errorLineNumber,
\* errorMessage and status.
C1_StaleCompletionDiscarded ==
    [][(lastOp'.op \in {"resolved", "rejected"} /\ lastOp'.stale /\ ~Tick)
          => UNCHANGED <<outputCode, lastFormattedCode, outputDiffInfo,
                         errorLineNumber, errorMessage, status>>]_vars

\* at most one debounce timer is pending, formatTimeoutId holds it, and it
\* expires DEBOUNCE_DELAY_MS after the last edit
C2_OneTimer ==
    /\ \A t, u \in FormatTimers : t = u
    /\ \A t \in FormatTimers :
          t.held /\ t.remaining = DEBOUNCE_DELAY_MS - sinceEdit

\* C2: a burst of edits, each less than DEBOUNCE_DELAY_MS after the one
\* before, keeps one debounce timer only, the timer of the last edit; it
\* fires DEBOUNCE_DELAY_MS after the last edit and runs formatCode once, on
\* the text of the last edit, and no debounce timer is left after it.
C2_DebounceBurst ==
    [][/\ C2_OneTimer'
       /\ Did("debounce") =>
             /\ sinceEdit = DEBOUNCE_DELAY_MS
             /\ lastOp.op = "edit" => inputCode = lastOp.arg
             /\ {t \in timers' : t.kind = "format"} = {}
             /\ IF PassesGuards(inputCode) THEN Invokes(inputCode)
                ELSE inflight' = inflight]_vars

\* two edits in one burst, then one engine call, for the text of the second
C2_Witness ==
    /\ lastOp.op = "debounce"
    /\ burst >= 2
    /\ sinceEdit = DEBOUNCE_DELAY_MS
    /\ Len(inflight) = 1
    /\ inflight[1].input = inputCode
    /\ inputCode = OneLine

\* C3 as stated: a change of a format option arms the debounce timer and does
\* not call the engine in the same step.
C3_OptionChangeDebounced ==
    [][Did("option") =>
          /\ inflight' = inflight
          /\ \E t \in timers' : t.kind = "format" /\ t.remaining = DEBOUNCE_DELAY_MS]_vars

\* C3: a change of a format option runs formatCode in the same step: with a
\* text that passes the guards it starts one engine call with the new
\* options, one call for every change, and it neither arms nor cancels the
\* debounce timer.
C3_OptionChangeImmediate ==
    [][Did("option") =>
          /\ {t \in timers' : t.kind = "format"} = FormatTimers
          /\ IF PassesGuards(inputCode) THEN Invokes(inputCode)
             ELSE inflight' = inflight]_vars

\* an option changed while the debounce timer of an edit is pending: the
\* engine call is there, and so is the timer
C3_Witness ==
    /\ lastOp.op = "option"
    /\ Len(inflight) = 1
    /\ inflight[1].options = options
    /\ inflight[1].input = OneLine
    /\ \E t \in FormatTimers : t.remaining = DEBOUNCE_DELAY_MS

\* C4: a run of formatCode, debounced or immediate, on a text longer than
\* MAX_INPUT_LENGTH displays the size-limit error and starts no engine call;
\* on a text of MAX_INPUT_LENGTH characters exactly it displays no error and
\* starts the engine call.
C4_SizeGuard ==
    [][FormatRun =>
          /\ StrLen(inputCode') > MAX_INPUT_LENGTH =>
                /\ showError'
                /\ errorMessage' = <<"Input too large">>
                /\ status' = "error"
                /\ inflight' = inflight
          /\ StrLen(inputCode') = MAX_INPUT_LENGTH =>
                /\ ~showError'
                /\ Invokes(inputCode')]_vars

\* a run on a text of MAX_INPUT_LENGTH + 1 characters, refused
C4_Witness ==
    /\ lastOp.op \in FormatOps
    /\ StrLen(inputCode) = MAX_INPUT_LENGTH + 1
    /\ showError
    /\ errorMessage = <<"Input too large">>
    /\ inflight = <<>>

\* C5: a run of formatCode on an empty or whitespace-only text leaves
\* outputCode empty and status ready, and starts no engine call, whatever the
\* state before it.
C5_BlankInputReady ==
    [][(FormatRun /\ Trim(inputCode') = <<>>) =>
          /\ outputCode' = <<>>
          /\ status' = "ready"
          /\ inflight' = inflight]_vars

\* C6 as stated: outputCode is non-empty exactly when status is formatted.
C6_NonEmptyIffFormatted == (outputCode # <<>>) <=> (status = "formatted")

\* C6: while status is formatted, outputCode is the snapshot
\* lastFormattedCode; a non-empty outputCode is that snapshot or the error
\* placeholder, whatever the status.
C6_FormattedShowsSnapshot ==
    /\ status = "formatted" => outputCode = lastFormattedCode
    /\ outputCode # <<>> =>
          outputCode = lastFormattedCode \/ StartsWith(outputCode, <<FF>>)

\* a formatted text on display while status is formatted
C6_Witness ==
    /\ status = "formatted"
    /\ outputCode = <<"a", "NL", "b">>
    /\ lastFormattedCode = outputCode

\* C7 as stated: while status is error, outputCode is the error placeholder.
C7_ErrorShowsPlaceholder ==
    status = "error" => \E m \in EngineErrors : outputCode = Placeholder(m)

\* the operations that display an error of their own
RefusalOps ==
    {"uploadRejected", "fileFailed", "pasteUnsupported", "pasteFailed",
     "copyRefused", "downloadRefused"}

\* a step that displays an error other than a failure of the formatter
OtherErrorStep ==
    /\ ~Tick
    /\ \/ lastOp'.op \in RefusalOps
       \/ lastOp'.op \in {"fileLoaded", "pasted", "copyFallback", "copyRejected"}
             /\ status' = "error"
       \/ lastOp'.op \in FormatOps /\ StrLen(inputCode') > MAX_INPUT_LENGTH

\* C7: the step that applies a failure of the formatter sets status to error
\* and outputCode to the placeholder made of the error text; every other
\* step that displays an error (input too large, file and clipboard
\* rejections, copy or download with nothing to act on) sets status to error
\* and leaves outputCode as it was.
C7_PlaceholderOnFormatterFailure ==
    [][/\ Did("rejected") =>
             /\ status' = "error"
             /\ showError'
             /\ outputCode' = Placeholder(lastOp'.arg)
       /\ OtherErrorStep =>
             /\ status' = "error"
             /\ showError'
             /\ outputCode' = outputCode]_vars

\* a failure of the formatter applied over a formatted text
C7_Witness ==
    /\ lastOp.op = "rejected"
    /\ status = "error"
    /\ lastFormattedCode # <<>>
    /\ outputCode = Placeholder(lastOp.arg)

\* C8: after a failure of the formatter is applied, outputCode is two lines:
\* the prefix line, then the line of the short message, the first line of the
\* error text or "Unknown error" when that line is empty.
C8_TwoLinePlaceholder ==
    lastOp.op = "rejected" =>
        /\ outputCode = <<FF, CK, "NL", ER>> \o shortErrorMessage(lastOp.arg)
        /\ LineCount(outputCode) = 2

\* the status timer in step with the status on display: formatted for
\* STATUS_DURATION_MS, error for ERROR_STATUS_DURATION_MS
C9_TimerInStep ==
    /\ status = "formatted" =>
          /\ StatusTimers # {}
          /\ \A t \in StatusTimers : t.remaining = STATUS_DURATION_MS - statusAge
    /\ status = "error" =>
          /\ StatusTimers # {}
          /\ \A t \in StatusTimers : t.remaining = ERROR_STATUS_DURATION_MS - statusAge

\* C9: a success of the formatter sets status to formatted and a failure sets
\* it to error; while the page is mounted the status timer then expires
\* STATUS_DURATION_MS, for error ERROR_STATUS_DURATION_MS, after the status
\* was set; and status goes from formatted, or error, to ready by the expiry
\* of that timer only, that long after the status was set.
C9_StatusDurations ==
    [][/\ Did("resolved") => status' = "formatted" /\ statusAge' = 0
       /\ Did("rejected") => status' = "error" /\ statusAge' = 0
       /\ Did("statusTimer") => status' = "ready"
       /\ mounted' => C9_TimerInStep'
       /\ (status = "formatted" /\ status' = "ready") =>
             Did("statusTimer") /\ statusAge = STATUS_DURATION_MS
       /\ (status = "error" /\ status' = "ready") =>
             Did("statusTimer") /\ statusAge = ERROR_STATUS_DURATION_MS]_vars

\* status still formatted STATUS_DURATION_MS after the success, the timer
\* about to fire
C9_Witness ==
    /\ status = "formatted"
    /\ statusAge = STATUS_DURATION_MS
    /\ \E t \in StatusTimers : t.remaining = 0

\* the steps after which lastFormattedCode may differ: the empty-input guard
\* of formatCode and the switch to the language auto
BlankGuardStep ==
    /\ ~Tick
    /\ lastOp'.op \in FormatOps \cup {"fileLoaded", "pasted"}
    /\ Trim(inputCode') = <<>>
    /\ lastFormattedCode' = <<>>
AutoSwitchStep ==
    /\ ~Tick
    /\ lastOp'.op \in {"selectLanguage", "confirmLanguage"}
    /\ selectedLanguage' = "auto"
    /\ lastFormattedCode' = <<>>

\* C10: the step that applies a success of the formatter sets outputCode and
\* lastFormattedCode to the result without its surrounding whitespace, and
\* lastFormattedCode changes in no other step than such a success, the
\* empty-input guard, clearAll and the switch to the language auto.
C10_SnapshotKept ==
    [][/\ Did("resolved") =>
             /\ outputCode' = Trim(lastOp'.arg)
             /\ lastFormattedCode' = Trim(lastOp'.arg)
       /\ lastFormattedCode' # lastFormattedCode =>
             \/ Did("resolved")
             \/ BlankGuardStep
             \/ Did("clear") /\ lastFormattedCode' = <<>>
             \/ AutoSwitchStep]_vars

\* a result with whitespace around it applied: the snapshot is the trimmed text
C10_Witness ==
    /\ lastOp.op = "resolved"
    /\ lastOp.arg = <<" ", "a", "NL", "b", "NL">>
    /\ outputCode = <<"a", "NL", "b">>
    /\ lastFormattedCode = <<"a", "NL", "b">>

\* outputCode is empty or the placeholder of a failure
NoOutput == outputCode = <<>> \/ \E m \in EngineErrors : outputCode = Placeholder(m)

\* the step is the Copy or the Download action of the user
CopyOrDownload ==
    /\ ~Tick
    /\ lastOp'.op \in {"copy", "copyFallback", "copyRefused", "download", "downloadRefused"}

\* C11: with outputCode empty or the placeholder, copy and download refuse:
\* no clipboard write is started, no file is produced (the status is not
\* copied! or downloaded), the no-output error is displayed, and inputCode,
\* outputCode and lastFormattedCode are unchanged.
C11_RefuseWithoutOutput ==
    [][(CopyOrDownload /\ NoOutput) =>
          /\ lastOp'.op \in {"copyRefused", "downloadRefused"}
          /\ copying' = copying
          /\ showError' /\ status' = "error"
          /\ errorMessage' \in {<<"No formatted code to copy.">>,
                                <<"No formatted code to download.">>}
          /\ UNCHANGED <<inputCode, outputCode, lastFormattedCode>>]_vars

\* copy refused on the placeholder of a failure
C11_Witness ==
    /\ lastOp.op = "copyRefused"
    /\ outputCode \in {Placeholder(m) : m \in EngineErrors}
    /\ errorMessage = <<"No formatted code to copy.">>
    /\ ~copying

\* C12: a non-null errorLineNumber is a line number of inputCode as it is
\* now: 1 <= errorLineNumber <= inputLineCount.
C12_ErrorLineInInput ==
    errorLineNumber # Null => errorLineNumber \in 1..LineCount(inputCode)

\* C13: while the view is plain (isDiffView false), outputDiffInfo is null.
C13_NoDiffInPlainView == ~isDiffView => outputDiffInfo = NoDiff

\* C14: once the component is torn down no timer is pending, so that no
\* timer callback fires, and no later step arms a timer or changes status.
C14_QuietAfterTeardown ==
    [][/\ ~mounted' => timers' = {}
       /\ ~mounted => status' = status]_vars

\* the extensions of the files the page takes
SupportedExtensions ==
    {<<"js">>, <<"mjs">>, <<"cjs">>, <<"jsx">>, <<"ts">>, <<"tsx">>}

\* the file may be uploaded: a supported extension and no more than 1 MiB
Uploadable(file) ==
    Extension(file.name) \in SupportedExtensions /\ file.size <= MAX_FILE_SIZE_BYTES

\* C15: the upload of a file with another extension than js, mjs, cjs, jsx,
\* ts, tsx, or of more than MAX_FILE_SIZE_BYTES bytes, is rejected: no read
\* of the file is started, an error is displayed, the engine is not called,
\* and inputCode, outputCode, selectedLanguage, uploadedFileName,
\* lastFormattedCode and outputDiffInfo are unchanged.
C15_UploadRejected ==
    [][(~Tick /\ lastOp'.op \in {"upload", "uploadRejected"}) =>
          /\ reading' # <<>> => Uploadable(reading'[1])
          /\ lastOp'.op = "uploadRejected" =>
                /\ showError' /\ status' = "error"
                /\ UNCHANGED <<inputCode, outputCode, selectedLanguage, uploadedFileName,
                               lastFormattedCode, outputDiffInfo, inflight, reading>>]_vars

\* generateDiffView has returned
DiffReturned == pure.fn = "generateDiffView" /\ pure.returned

\* the added and unchanged records of a diff view, in order
KeptRecords(view) == SelectSeq(view, LAMBDA r : r.type # "removed")

\* lines joined by newlines
RECURSIVE JoinLines(_)
JoinLines(lines) ==
    IF lines = <<>> THEN <<>>
    ELSE IF Len(lines) = 1 THEN lines[1]
    ELSE lines[1] \o <<"NL">> \o JoinLines(Tail(lines))

\* the line a displayed text stands for: the entities read back as their
\* characters, and the &nbsp; of an empty line as the empty line
SourceLine(display) ==
    IF display = <<"&nbsp;">> THEN <<>>
    ELSE [i \in 1..Len(display) |->
             CASE display[i] = "&amp;" -> "&"
               [] display[i] = "&lt;" -> "<"
               [] display[i] = "&gt;" -> ">"
               [] OTHER -> display[i]]

\* C16 as stated: the displayed texts of the added and unchanged records,
\* joined by newlines, are the formatted text, for every pair of texts.
C16_RoundTrip ==
    DiffReturned =>
        LET kept == KeptRecords(pure.result)
        IN  JoinLines([i \in 1..Len(kept) |-> kept[i].line]) = pure.args[2]

\* C16: for a formatted text that does not end with a newline, the lines
\* that the displayed texts of the added and unchanged records stand for,
\* joined by newlines, are the formatted text.
C16_RoundTripOfLines ==
    (DiffReturned /\ (pure.args[2] = <<>> \/ pure.args[2][Len(pure.args[2])] # "NL")) =>
        LET kept == KeptRecords(pure.result)
        IN  JoinLines([i \in 1..Len(kept) |-> SourceLine(kept[i].line)]) = pure.args[2]

\* a formatted text with an empty line and a line of <, another original
C16_Witness ==
    /\ DiffReturned
    /\ pure.args = << <<"a">>, <<"NL", "<">> >>
    /\ Len(pure.result) = 3

\* C17: in the records of generateDiffView every removed record has a null
\* line number, and the added and unchanged records carry, in order, the
\* numbers 1, 2, ..., K, K being their count.
C17_SequentialNumbers ==
    DiffReturned =>
        LET kept == KeptRecords(pure.result)
        IN  /\ \A i \in 1..Len(pure.result) :
                  pure.result[i].type = "removed" => pure.result[i].lineNum = Null
            /\ \A j \in 1..Len(kept) : kept[j].lineNum = j

\* an unchanged, a removed and an added line in one view
C17_Witness ==
    /\ DiffReturned
    /\ [i \in 1..Len(pure.result) |-> pure.result[i].type]
           = <<"unchanged", "removed", "added">>
    /\ pure.result[3].lineNum = 2

\* the lines of a text, a final newline ending the last line
NormalLines(t) ==
    IF t = <<>> THEN 0
    ELSE Cardinality({i \in 1..Len(t) : t[i] = "NL"})
             + (IF t[Len(t)] = "NL" THEN 0 ELSE 1)

\* C18: generateDiffView(x, x) has unchanged records only, one for every
\* line of x, numbered 1..N.
C18_IdenticalTexts ==
    (DiffReturned /\ pure.args[1] = pure.args[2]) =>
        /\ Len(pure.result) = NormalLines(pure.args[1])
        /\ \A i \in 1..Len(pure.result) :
              pure.result[i].type = "unchanged" /\ pure.result[i].lineNum = i

\* a text of two lines compared with itself
C18_Witness ==
    /\ DiffReturned
    /\ pure.args = << <<"a", "NL", "<">>, <<"a", "NL", "<">> >>
    /\ Len(pure.result) = 2

\* extractErrorLineNumber has returned
ExtractReturned == pure.fn = "extractErrorLineNumber" /\ pure.returned

\* the positions of a message at which a pattern matches
Matches(t, M(_, _)) == {i \in 1..Len(t) : M(t, i) # <<>>}

\* the number captured by the leftmost match of a pattern that matches
Captured(t, M(_, _)) ==
    ParseInt(M(t, CHOOSE i \in Matches(t, M) : \A h \in Matches(t, M) : i <= h))

\* C19: extractErrorLineNumber returns the number captured by the row:col
\* pattern when that matches anywhere in the message, else the one captured
\* by "line N" when that matches anywhere, else the one captured by the
\* gutter "> N |" when that matches, and null when none matches; for
\* "Unexpected token (3:10)" it returns 3.
C19_FirstPatternInOrder ==
    ExtractReturned =>
        LET m == pure.args[1]
        IN  /\ Matches(m, MatchRowCol) # {} =>
                  pure.result = Captured(m, MatchRowCol)
            /\ (Matches(m, MatchRowCol) = {} /\ Matches(m, MatchLineWord) # {}) =>
                  pure.result = Captured(m, MatchLineWord)
            /\ (Matches(m, MatchRowCol) = {} /\ Matches(m, MatchLineWord) = {}
                  /\ Matches(m, MatchGutter) # {}) =>
                  pure.result = Captured(m, MatchGutter)
            /\ (Matches(m, MatchRowCol) = {} /\ Matches(m, MatchLineWord) = {}
                  /\ Matches(m, MatchGutter) = {}) =>
                  pure.result = Null
            /\ m = UnexpectedToken => pure.result = 3

\* a gutter and a "line N" both before the row:col position that is returned
C19_Witness ==
    /\ ExtractReturned
    /\ pure.args[1] = GutterPart("4") \o LineWordPart("3") \o RowColPart("1")
    /\ pure.result = 1

\* detectLanguage has returned
DetectReturned == pure.fn = "detectLanguage" /\ pure.returned

\* the result the decision table gives for the two signals
Decision(ts, jsx) ==
    IF ts /\ jsx THEN "tsx"
    ELSE IF ts THEN "typescript"
    ELSE IF jsx THEN "jsx"
    ELSE "javascript"

\* a colon, spaces or none, and one of the primitive type names as a whole word
PrimitiveAnnotation(t, i) ==
    \E j \in (i + 1)..Len(t) :
        /\ t[i] = ":"
        /\ \A k \in (i + 1)..(j - 1) : IsSpace(t[k])
        /\ t[j] \in PrimitiveTypes
        /\ ~BeginsWord(At(t, j + 1))

\* an opening tag whose name begins with an uppercase letter: the name is
\* an identifier, and a space, a slash or > follows it
UppercaseTag(t, i) ==
    \E j \in (i + 1)..Len(t) :
        /\ t[i] = "<"
        /\ t[i + 1] \in UpperLetters
        /\ \A k \in (i + 2)..j : IsWord(t[k])
        /\ At(t, j + 1) \in {" ", "NL", "/", ">"}

\* an uppercase opening tag whose name is made of letters only
LetterTag(t, i) ==
    \E j \in (i + 1)..Len(t) :
        /\ t[i] = "<"
        /\ t[i + 1] \in UpperLetters
        /\ \A k \in (i + 2)..j : IsAlpha(t[k])
        /\ At(t, j + 1) \in {" ", "NL", "/", ">"}

\* the decision table of detectLanguage, which never gives auto
DecisionTable ==
    /\ pure.result \in {"tsx", "typescript", "jsx", "javascript"}
    /\ pure.result = Decision(hasTypeAnnotations(pure.args[1]), hasJsx(pure.args[1]))
    /\ pure.args[1] = <<>> => pure.result = "javascript"

C21_CancelRestoresSelection ==
    [][(Did("cancelLanguage") /\ lastOp.op = "selectLanguage") =>
          /\ selectedLanguage' = lastOp.arg[1]
          /\ inputCode' = inputCode
          /\ outputCode' = outputCode]_vars

\* C22: from a formatter failure to the next successful format the output is
\* the placeholder and no toggle of the view brings back a diff of the text
\* formatted before the failure: while the placeholder is the output, the
\* diff mapping is none.
C22_NoRecoveryOfLastResult ==
    StartsWith(outputCode, <<FF>>) => outputDiffInfo = NoDiff

\* what a toggle of the view leaves alone
ToggleFrame ==
    <<inputCode, outputCode, lastFormattedCode, lastInputCode, status, errorMessage,
      showError, errorLineNumber, selectedLanguage, options, uploadedFileName,
      timers, formatTimeoutId, statusTimeoutId, inflight, userHasModifiedInput,
      showLanguageChangeWarning, pendingLanguageChange, previousLanguage>>

\* C23: a toggle of the view starts no engine call and changes nothing but
\* isDiffView and the diff mapping: inputCode, outputCode, lastFormattedCode,
\* status, errorMessage and errorLineNumber stay as they are.
C23_ToggleChangesViewOnly ==
    [][Did("toggleDiff") =>
          /\ isDiffView' = ~isDiffView
          /\ UNCHANGED ToggleFrame]_vars

\* a toggle to the diff view that computed a diff mapping
C23_Witness ==
    /\ lastOp.op = "toggleDiff"
    /\ isDiffView
    /\ lastFormattedCode # <<>>
    /\ outputDiffInfo # NoDiff

\* C24: at most one debounce timer and at most one status timer is pending,
\* and every pending timer is the one armed last of its kind, the one whose
\* id the page holds: a timer that was replaced is not pending any more.
C24_OneTimerOfEachKind ==
    /\ Cardinality(FormatTimers) <= 1
    /\ Cardinality(StatusTimers) <= 1
    /\ \A t \in timers : t.held

\* the status of a completion replaced the pending timer of "formatting...",
\* while a debounce timer is pending too
C24_Witness ==
    /\ lastOp.op = "resolved"
    /\ status = "formatted"
    /\ Cardinality(StatusTimers) = 1
    /\ Cardinality(FormatTimers) = 1
    /\ statusAge = 0

\* C25: a diff mapping computed at a successful completion is the diff of the
\* text that was given to the engine call and the snapshot it produced.
C25_DiffOfFormattedInput ==
    [][(Did("resolved") /\ outputDiffInfo' # NoDiff) =>
          \E i \in 1..Len(inflight) :
              outputDiffInfo' =
                  <<DiffInfo(generateDiffView(inflight[i].input, lastFormattedCode'))>>]_vars

\* C26: a format run while a language change awaits confirmation, other than
\* the run of the confirmation itself, takes its parser from the language in
\* effect before the pending selection.
C26_PendingLanguageUnused ==
    [][(showLanguageChangeWarning /\ lastOp.op = "selectLanguage"
          /\ ~Did("confirmLanguage")
          /\ Len(inflight') = Len(inflight) + 1) =>
          inflight'[Len(inflight')].parser =
              ParserOf(effectiveLanguage([S EXCEPT !.selectedLanguage = lastOp.arg[1]]))]_vars

\* C27: the completion of an engine call that was in flight when clearAll ran
\* leaves outputCode, lastFormattedCode and the diff mapping empty and shows
\* no error.
C27_ClearedStaysCleared ==
    [][(lastOp.op = "clear" /\ (Did("resolved") \/ Did("rejected"))) =>
          /\ outputCode' = <<>>
          /\ lastFormattedCode' = <<>>
          /\ outputDiffInfo' = NoDiff
          /\ ~showError']_vars

\* C28: right after a successful completion with a non-empty result, whatever
\* the formatted text is, neither copy nor download is refused.
C28_CopyAfterSuccess ==
    [][(lastOp.op = "resolved" /\ Trim(lastOp.arg) # <<>>) =>
          ~(Did("copyRefused") \/ Did("downloadRefused"))]_vars

====
